---- MODULE Spec2Model ----
(***************************************************************************)
(* State-machine model of src/feedback_bot.py (class FeedbackBot).         *)
(*                                                                         *)
(* The bot runs three asyncio tasks in one thread: run_notion_checker      *)
(* (the Discovery Poller), run_reminder_checker (the Reminder Loop) and    *)
(* run_telegram_polling (the Interaction Handler).  asyncio is cooperative:*)
(* a task is only suspended at an `await` of an outbound HTTP call, so     *)
(* every action below is the code executed between two such awaits.  The   *)
(* sqlite file feedback.db (tables questionnaires and processed_meetings)  *)
(* survives a restart of the process; the tasks' local variables do not.   *)
(*                                                                         *)
(* Columns student_id and created_at of questionnaires are written once    *)
(* and only copied; they are left out of the rows.                         *)
(***************************************************************************)
EXTENDS Integers, Sequences, FiniteSets, TLC

\* ---------------------------------------------------------------- bounds
\* Meetings the record store can return; meeting ids are 1..NumMeetings and
\* their TEXT order is the numeric order.
NumMeetings == 2
\* Chats; meeting m belongs to chat ChatOf(m).
NumChats == 1
\* Telegram messages the bot may send in one behaviour of Spec.
MaxMessages == 2
\* Telegram messages the bot may send in SpecDiscovery and SpecReliable.
DiscoveryMessages == 4
\* Button presses the users may make in one behaviour of Spec.
MaxUpdates == 6
\* Button presses in SpecChat and in SpecScores.
ChatUpdates == 6
ScoresUpdates == 6
\* Unconfirmed updates the channel may hold.
MaxPending == 2
\* Unconfirmed updates the channel may hold in SpecScores.
ScoresPending == 1
\* Highest score button the users press in the general specification.
MaxPoints == 1
\* Button presses in SpecClosing and in SpecReplay.
ClosingUpdates == 7
ReplayUpdates == 7
\* Messages and updates in SpecEvents.
EventMessages == 2
EventUpdates == 6
\* Messages, button presses and unconfirmed updates in SpecLive.
LiveMessages == 1
LiveUpdates == 6
LivePending == 1

\* ------------------------------------------------------ program constants
total_questions == 5
\* generate_question_keyboard offers the scores range(1, 6).
MaxScore == 5

Meetings == 1..NumMeetings
Chats == 1..NumChats
ChatOf(m) == ((m - 1) % NumChats) + 1
\* A meeting's title; titles are distinct and hold no comma.
NameOf(m) == m
NULL == 0
\* meeting_name = "" of a start payload that carries no name.
NoName == 0

VARIABLES
    questionnaires,      \* table questionnaires, rows in rowid (insertion) order
    processed_meetings,  \* table processed_meetings (set of meeting ids)
    feedbackReceived,    \* record store: meetings whose "BOT Feedback Received" is set
    feedback,            \* record store: feedback pages created, in order
    messages,            \* Telegram: messages sent by the bot, message_id = index
    updates,             \* Telegram: unconfirmed updates of the long-poll channel
    nextUpdateId,        \* Telegram: update_id the next update gets
    answerLog,           \* logger.info of process_answer: <<meeting_id, question_num, points>>
    pollPc, pollBatch,   \* run_notion_checker: position, meetings left in the cycle
    remPc, remPending,   \* run_reminder_checker: position, rows left in the scan
    hPc, offset, hBatch, \* run_telegram_polling: position, offset, updates left
    hCtx                 \* locals of the callback being handled

dbVars == <<questionnaires, processed_meetings>>
notionVars == <<feedbackReceived, feedback>>
tgVars == <<messages, updates, nextUpdateId>>
pollVars == <<pollPc, pollBatch>>
remVars == <<remPc, remPending>>
hVars == <<hPc, offset, hBatch, hCtx>>
vars == <<questionnaires, processed_meetings, feedbackReceived, feedback,
          messages, updates, nextUpdateId, answerLog,
          pollPc, pollBatch, remPc, remPending, hPc, offset, hBatch, hCtx>>

\* ---------------------------------------------------------------- helpers
Range(s) == {s[i] : i \in DOMAIN s}
NoCtx == [chat_id |-> NULL, meeting_id |-> NULL, message_id |-> NULL,
          next_question |-> 0, answers |-> <<>>]

\* Sequences without repetition over a set (the result lists of the query).
RECURSIVE Orders(_)
Orders(S) ==
    IF S = {} THEN {<<>>}
    ELSE UNION {{<<x>> \o o : o \in Orders(S \ {x})} : x \in S}

\* ----------------------------------------------------------- the database
\* Index of the row with primary key (chat_id, meeting_id), 0 when absent.
RowOf(chat_id, meeting_id) ==
    LET I == {i \in DOMAIN questionnaires :
                /\ questionnaires[i].chat_id = chat_id
                /\ questionnaires[i].meeting_id = meeting_id}
    IN IF I = {} THEN 0 ELSE CHOOSE i \in I : \A j \in I : i <= j

\* Mutant: the query has no status filter.
FirstInChat_any(chat_id, status) ==
    LET I == {i \in DOMAIN questionnaires : questionnaires[i].chat_id = chat_id}
    IN IF I = {} THEN 0
       ELSE CHOOSE i \in I :
              \A j \in I : questionnaires[i].meeting_id <= questionnaires[j].meeting_id

\* SELECT ... WHERE chat_id = ? AND status = ? followed by fetchone(): sqlite
\* searches the primary-key index (chat_id, meeting_id), so the first row is
\* the one with the least meeting_id.  0 when no row matches.
FirstInChat(chat_id, status) ==
    LET I == {i \in DOMAIN questionnaires :
                /\ questionnaires[i].chat_id = chat_id
                /\ questionnaires[i].status = status}
    IN IF I = {} THEN 0
       ELSE CHOOSE i \in I :
              \A j \in I : questionnaires[i].meeting_id <= questionnaires[j].meeting_id

is_meeting_processed(meeting_id) == meeting_id \in processed_meetings

NewRow(chat_id, meeting_id, meeting_name) ==
    [chat_id |-> chat_id, meeting_id |-> meeting_id,
     meeting_name |-> meeting_name, status |-> "pending",
     current_question |-> 0, answers |-> <<>>,
     last_message_id |-> NULL]

\* Mutant: the table has no primary key, every insert adds a row.
save_questionnaire_no_key(chat_id, meeting_id, meeting_name) ==
    [ok |-> TRUE,
     table |-> Append(questionnaires, NewRow(chat_id, meeting_id, meeting_name))]

\* Mutant: INSERT OR REPLACE, an existing row is overwritten by a fresh one.
save_questionnaire_replace(chat_id, meeting_id, meeting_name) ==
    IF RowOf(chat_id, meeting_id) # 0
    THEN [ok |-> TRUE,
          table |-> [questionnaires EXCEPT ![RowOf(chat_id, meeting_id)] =
                        NewRow(chat_id, meeting_id, meeting_name)]]
    ELSE [ok |-> TRUE,
          table |-> Append(questionnaires, NewRow(chat_id, meeting_id, meeting_name))]

\* save_questionnaire: INSERT INTO questionnaires.  PRIMARY KEY (chat_id,
\* meeting_id) makes the insert raise sqlite3.IntegrityError (ok = FALSE)
\* when the key is already there.
save_questionnaire(chat_id, meeting_id, meeting_name) ==
    IF RowOf(chat_id, meeting_id) # 0
    THEN [ok |-> FALSE, table |-> questionnaires]
    ELSE [ok |-> TRUE,
          table |-> Append(questionnaires, NewRow(chat_id, meeting_id, meeting_name))]

\* Mutant: the UPDATE of last_message_id is not committed.
SetLastMessage_lost(table, chat_id, meeting_id, message_id) == table

\* Mutant: the UPDATE also puts the row back to pending at question 0.
SetLastMessage_reset(table, chat_id, meeting_id, message_id) ==
    [i \in DOMAIN table |->
        IF table[i].chat_id = chat_id /\ table[i].meeting_id = meeting_id
        THEN [table[i] EXCEPT !.last_message_id = message_id,
                              !.status = "pending", !.current_question = 0]
        ELSE table[i]]

\* UPDATE questionnaires SET last_message_id = ? WHERE chat_id = ? AND meeting_id = ?
SetLastMessage(table, chat_id, meeting_id, message_id) ==
    [i \in DOMAIN table |->
        IF table[i].chat_id = chat_id /\ table[i].meeting_id = meeting_id
        THEN [table[i] EXCEPT !.last_message_id = message_id]
        ELSE table[i]]

\* ------------------------------------------------------------- messaging
\* send_initial_message: the prompt with the single button
\* start,<chat_id>,<meeting_name>; the new message_id is the next index.
InitialMessage(chat_id, meeting_name) ==
    [chat_id |-> chat_id, kind |-> "prompt", meeting |-> meeting_name,
     question |-> 0, deleted |-> FALSE]
CanSend(maxMessages) == Len(messages) < maxMessages

Init ==
    /\ questionnaires = <<>>
    /\ processed_meetings = {}
    /\ feedbackReceived = {}
    /\ feedback = <<>>
    /\ messages = <<>>
    /\ updates = <<>>
    /\ nextUpdateId = 1
    /\ answerLog = <<>>
    /\ pollPc = "fetch" /\ pollBatch = <<>>
    /\ remPc = "scan" /\ remPending = <<>>
    /\ hPc = "poll" /\ offset = 0 /\ hBatch = <<>> /\ hCtx = NoCtx

\* ------------------------------------------------ run_notion_checker
\* The exception handler of the cycle: log, drop the rest of the batch, sleep.
PollerAbort ==
    /\ pollPc' = "fetch"
    /\ pollBatch' = <<>>

\* Where the cycle waits with `batch` left: process_meeting of its head has
\* read the record (lines 103-106) and awaits the mentor's name (line 107);
\* with nothing left the loop sleeps POLLING_INTERVAL and fetches again.
PollerAt(batch) == IF batch = <<>> THEN "fetch" ELSE "name"

\* fetch_notion_meetings returns: the meetings of the record store that are
\* not flagged, in the order the record store chooses; process_meeting
\* starts on the first.
NotionFetch(store) ==
    /\ pollPc = "fetch"
    /\ \E batch \in Orders(store \ feedbackReceived) :
          /\ batch # <<>>
          /\ pollBatch' = batch
    /\ pollPc' = "name"
    /\ UNCHANGED <<dbVars, notionVars, tgVars, answerLog, remVars, hVars>>

\* process_meeting, lines 103-110: a field is missing from the record
\* (KeyError / IndexError), or the name lookup fails.
ProcessMeetingRaises ==
    /\ pollPc = "name"
    /\ PollerAbort
    /\ UNCHANGED <<dbVars, notionVars, tgVars, answerLog, remVars, hVars>>

\* process_meeting, lines 108-120: the name arrived; a processed meeting is
\* skipped, otherwise the row is inserted and the prompt is being sent.
ProcessMeetingSave ==
    /\ pollPc = "name"
    /\ LET meeting_id == Head(pollBatch)
           chat_id == ChatOf(meeting_id)
       IN IF is_meeting_processed(meeting_id)
          THEN /\ pollBatch' = Tail(pollBatch)
               /\ pollPc' = PollerAt(pollBatch')
               /\ UNCHANGED questionnaires
          ELSE LET saved == save_questionnaire(chat_id, meeting_id, NameOf(meeting_id))
               IN IF saved.ok
                  THEN /\ questionnaires' = saved.table
                       /\ pollPc' = "send"
                       /\ UNCHANGED pollBatch
                  ELSE /\ PollerAbort          \* sqlite3.IntegrityError
                       /\ UNCHANGED questionnaires
    /\ UNCHANGED <<processed_meetings, notionVars, tgVars, answerLog, remVars, hVars>>

\* process_meeting, lines 120-129: the prompt was sent; its message_id is
\* stored on the row and the meeting is marked processed.
ProcessMeetingSent(maxMessages) ==
    /\ pollPc = "send"
    /\ CanSend(maxMessages)
    /\ LET meeting_id == Head(pollBatch)
           chat_id == ChatOf(meeting_id)
           message_id == Len(messages) + 1
       IN /\ messages' = Append(messages, InitialMessage(chat_id, NameOf(meeting_id)))
          /\ questionnaires' = SetLastMessage(questionnaires, chat_id, meeting_id, message_id)
          /\ processed_meetings' = processed_meetings \cup {meeting_id}
    /\ pollBatch' = Tail(pollBatch)
    /\ pollPc' = PollerAt(pollBatch')
    /\ UNCHANGED <<notionVars, updates, nextUpdateId, answerLog, remVars, hVars>>

\* process_meeting, line 120: send_initial_message raises.  Either nothing
\* was delivered (transport error, a reply without 'result'), or Telegram
\* delivered the prompt and its reply was lost.
ProcessMeetingSendFails(maxMessages) ==
    /\ pollPc = "send"
    /\ \/ UNCHANGED messages
       \/ /\ CanSend(maxMessages)
          /\ messages' = Append(messages, InitialMessage(ChatOf(Head(pollBatch)),
                                                         NameOf(Head(pollBatch))))
    /\ PollerAbort
    /\ UNCHANGED <<dbVars, notionVars, updates, nextUpdateId, answerLog, remVars, hVars>>

Poller(store, maxMessages) ==
    \/ NotionFetch(store)
    \/ ProcessMeetingSave
    \/ ProcessMeetingRaises
    \/ ProcessMeetingSent(maxMessages)
    \/ ProcessMeetingSendFails(maxMessages)

\* ------------------------------------------------ run_reminder_checker
\* SELECT chat_id, meeting_id, meeting_name, last_message_id FROM questionnaires
\* WHERE status = 'pending', fetchall(): a table scan, in rowid order.
RECURSIVE PendingRows(_)
PendingRows(table) ==
    IF table = <<>> THEN <<>>
    ELSE LET r == Head(table)
             rest == PendingRows(Tail(table))
         IN IF r.status = "pending"
            THEN <<[chat_id |-> r.chat_id, meeting_id |-> r.meeting_id,
                    meeting_name |-> r.meeting_name,
                    last_message_id |-> r.last_message_id]>> \o rest
            ELSE rest

\* Where the scan waits for the row at the head of the list: `if
\* last_message_id:` decides whether the old prompt is deleted first.
ReminderAt(pending) ==
    IF pending = <<>> THEN "scan"
    ELSE IF Head(pending).last_message_id # NULL THEN "delete" ELSE "send"

\* The exception handler of the scan: log, drop the rest, sleep.
ReminderAbort ==
    /\ remPc' = "scan"
    /\ remPending' = <<>>

\* Lines 388-396: the scan reads the pending rows and starts on the first.
ReminderScan ==
    /\ remPc = "scan"
    /\ PendingRows(questionnaires) # <<>>
    /\ remPending' = PendingRows(questionnaires)
    /\ remPc' = ReminderAt(remPending')
    /\ UNCHANGED <<dbVars, notionVars, tgVars, answerLog, pollVars, hVars>>

\* deleteMessage: Telegram removes the message.
DeleteMessage(message_id) ==
    [i \in DOMAIN messages |->
        IF i = message_id THEN [messages[i] EXCEPT !.deleted = TRUE]
        ELSE messages[i]]

\* Line 396 returns: Telegram deleted the old prompt.
ReminderDeleted ==
    /\ remPc = "delete"
    /\ messages' = DeleteMessage(Head(remPending).last_message_id)
    /\ remPc' = "send"
    /\ UNCHANGED <<remPending, dbVars, notionVars, updates, nextUpdateId,
                   answerLog, pollVars, hVars>>

\* Line 396 returns: Telegram refused to delete ({"ok": false}, for instance
\* a message older than 48 hours).  The reply is not inspected, so the scan
\* goes on as after a deletion.
ReminderDeleteRefused ==
    /\ remPc = "delete"
    /\ remPc' = "send"
    /\ UNCHANGED <<remPending, dbVars, notionVars, tgVars, answerLog, pollVars, hVars>>

\* Lines 399-408: the mentor's name was fetched and the fresh prompt sent;
\* its message_id is stored on the row named by the scan's snapshot.
ReminderSent(maxMessages) ==
    /\ remPc = "send"
    /\ CanSend(maxMessages)
    /\ LET r == Head(remPending)
           message_id == Len(messages) + 1
       IN /\ messages' = Append(messages, InitialMessage(r.chat_id, r.meeting_name))
          /\ questionnaires' = SetLastMessage(questionnaires, r.chat_id, r.meeting_id, message_id)
    /\ remPending' = Tail(remPending)
    /\ remPc' = ReminderAt(remPending')
    /\ UNCHANGED <<processed_meetings, notionVars, updates, nextUpdateId,
                   answerLog, pollVars, hVars>>

\* A step of the scan raises and the except clause at the loop boundary ends
\* the scan with the row as it was: the call was not performed (deleteMessage,
\* the mentor lookup, sendMessage); or deleteMessage was performed and its
\* reply lost, so the old prompt is gone and no new one exists; or
\* sendMessage was performed and its reply lost, or the UPDATE of lines
\* 404-408 raised sqlite3.OperationalError (database is locked), so the new
\* prompt exists and the row still names the old one.
ReminderRaises(maxMessages) ==
    /\ remPc \in {"delete", "send"}
    /\ \/ UNCHANGED messages
       \/ /\ remPc = "delete"
          /\ messages' = DeleteMessage(Head(remPending).last_message_id)
       \/ /\ remPc = "send"
          /\ CanSend(maxMessages)
          /\ messages' = Append(messages, InitialMessage(Head(remPending).chat_id,
                                                         Head(remPending).meeting_name))
    /\ ReminderAbort
    /\ UNCHANGED <<dbVars, notionVars, updates, nextUpdateId, answerLog,
                   pollVars, hVars>>

Reminder(maxMessages) ==
    \/ ReminderScan
    \/ ReminderDeleted
    \/ ReminderDeleteRefused
    \/ ReminderSent(maxMessages)
    \/ ReminderRaises(maxMessages)

\* ------------------------------------------------------------- the users
\* Decimal text of the numbers a payload carries: str(n) is what the f-string
\* of generate_question_keyboard writes, int(text) what handle_callback_query
\* parses; IsInt(text) is false where int(text) raises ValueError.
Digits == <<"1", "2", "3", "4", "5", "6", "7", "8", "9">>
str(n) == Digits[n]
IsInt(text) == \E n \in DOMAIN Digits : Digits[n] = text
int(text) == CHOOSE n \in DOMAIN Digits : Digits[n] = text

\* callback_data of the buttons a message shows: the prompt carries
\* start,<chat_id>,<meeting_name>; a question carries, for each score i,
\* answer,<chat_id>,<meeting_id>,<question_num>,<i>.  The payload is kept as
\* the list of its comma-separated fields; the ids stand for their text.
Buttons(msg, scores) ==
    IF msg.kind = "prompt" THEN {<<"start", msg.chat_id, msg.meeting>>}
    ELSE IF msg.kind = "question"
    THEN {<<"answer", msg.chat_id, msg.meeting, str(msg.question), str(i)>> : i \in scores}
    ELSE {}

\* A user presses a button of a message that is on screen; Telegram queues
\* the callback_query as the next update.
Press(scores, maxUpdates, maxPending) ==
    /\ nextUpdateId <= maxUpdates
    /\ Len(updates) < maxPending
    /\ \E message_id \in DOMAIN messages :
          /\ ~messages[message_id].deleted
          /\ \E data \in Buttons(messages[message_id], scores) :
                updates' = Append(updates, [update_id |-> nextUpdateId,
                                            kind |-> "callback_query",
                                            data |-> data,
                                            text |-> <<>>,
                                            chat_id |-> messages[message_id].chat_id,
                                            message_id |-> message_id])
    /\ nextUpdateId' = nextUpdateId + 1
    /\ UNCHANGED <<dbVars, notionVars, messages, answerLog, pollVars, remVars, hVars>>

\* Payloads no keyboard of this program writes (a button of an older
\* version, a client that alters callback_data): an action the dispatcher
\* does not know, an answer cut short, an answer whose question or score is
\* not a number, a start without the meeting name, a bare start.
OddPayloads(chat_id, meeting_id) ==
    {<<"help", chat_id, meeting_id>>,
     <<"answer", chat_id, meeting_id>>,
     <<"answer", chat_id, meeting_id, "x", "1">>,
     <<"answer", chat_id, meeting_id, "1", "x">>,
     <<"start", chat_id>>,
     <<"start">>}

\* Telegram queues a callback_query that carries such a payload, pressed on
\* a message of the bot.
PressOdd(maxUpdates, maxPending) ==
    /\ nextUpdateId <= maxUpdates
    /\ Len(updates) < maxPending
    /\ \E message_id \in DOMAIN messages :
          \E data \in OddPayloads(messages[message_id].chat_id,
                                  messages[message_id].meeting) :
              updates' = Append(updates, [update_id |-> nextUpdateId,
                                          kind |-> "callback_query",
                                          data |-> data,
                                          text |-> <<>>,
                                          chat_id |-> messages[message_id].chat_id,
                                          message_id |-> message_id])
    /\ nextUpdateId' = nextUpdateId + 1
    /\ UNCHANGED <<dbVars, notionVars, messages, answerLog, pollVars, remVars, hVars>>

\* The text of a message, kept as the list of its pieces, " " being a run of
\* whitespace; strip() drops the whitespace at both ends.
RECURSIVE lstrip(_)
lstrip(text) ==
    IF text # <<>> /\ Head(text) = " " THEN lstrip(Tail(text)) ELSE text
RECURSIVE rstrip(_)
rstrip(text) ==
    IF text # <<>> /\ text[Len(text)] = " "
    THEN rstrip(SubSeq(text, 1, Len(text) - 1)) ELSE text
strip(text) == rstrip(lstrip(text))

\* The one command run_telegram_polling answers (line 450).
ChatIdCommand == <<"/chat_id@Feedback_Impact_bot">>

\* Texts a user types into a chat: the command, the command with whitespace
\* around it, some other text, and a message that carries no text (a photo).
Texts ==
    {ChatIdCommand, <<" ">> \o ChatIdCommand \o <<" ">>, <<"hello">>, <<>>}

\* A user posts a message in a chat of the bot; Telegram queues it as the
\* next update.
SendText(maxUpdates, maxPending) ==
    /\ nextUpdateId <= maxUpdates
    /\ Len(updates) < maxPending
    /\ \E chat_id \in Chats, text \in Texts :
          updates' = Append(updates, [update_id |-> nextUpdateId,
                                      kind |-> "message",
                                      data |-> <<>>,
                                      text |-> text,
                                      chat_id |-> chat_id,
                                      message_id |-> NULL])
    /\ nextUpdateId' = nextUpdateId + 1
    /\ UNCHANGED <<dbVars, notionVars, messages, answerLog, pollVars, remVars, hVars>>

\* ------------------------------------------------------------ answers
\* The answers column holds JSON text: kept as the list of its "key": value
\* pairs (every key of JSON text is a string).  A dict is the list of its
\* entries, each key tagged as a str or an int key.
StrKey(k) == <<"str", k>>
IntKey(k) == <<"int", k>>

DictHas(d, key) == \E i \in DOMAIN d : d[i].key = key
\* d[key] = value: an existing key keeps its place, a new one is appended.
DictSet(d, key, value) ==
    IF DictHas(d, key)
    THEN [i \in DOMAIN d |-> IF d[i].key = key THEN [d[i] EXCEPT !.value = value] ELSE d[i]]
    ELSE Append(d, [key |-> key, value |-> value])
\* d.get(key, default)
DictGet(d, key, default) ==
    IF DictHas(d, key) THEN (CHOOSE e \in Range(d) : e.key = key).value ELSE default

\* json.loads: every key becomes a str key; of a repeated key the last value wins.
RECURSIVE LoadPairs(_, _)
LoadPairs(d, text) ==
    IF text = <<>> THEN d
    ELSE LoadPairs(DictSet(d, StrKey(Head(text)[1]), Head(text)[2]), Tail(text))
json_loads(text) == LoadPairs(<<>>, text)

\* json.dumps: the entries in order, an int key written as the string of its
\* digits (so a str key and an int key may be written as the same key twice).
json_dumps(d) == [i \in DOMAIN d |-> <<d[i].key[2], d[i].value>>]

\* Keys of the stored answers, as numbers.
AnswerKeys(text) == {text[i][1] : i \in DOMAIN text}

\* ------------------------------------------------ run_telegram_polling
\* Where the loop goes when a callback is done: the next update of the
\* batch, or the next getUpdates.
HandlerAt(batch) == IF batch = <<>> THEN "poll" ELSE "dispatch"

\* Mutant: the exception leaves run_telegram_polling and the task ends.
HandlerAbort_halts ==
    /\ hPc' = "ended"
    /\ hBatch' = <<>>
    /\ hCtx' = NoCtx

\* The exception handler of the polling loop: log, sleep(5), then the next
\* getUpdates with the offset as it stands.
HandlerAbort ==
    /\ hPc' = "poll"
    /\ hBatch' = <<>>
    /\ hCtx' = NoCtx

\* Mutant: getUpdates is called without the offset, so Telegram confirms
\* nothing and returns every update it holds.
GetUpdates_nooffset ==
    /\ hPc = "poll"
    /\ updates # <<>>
    /\ hBatch' = updates
    /\ hPc' = "dispatch"
    /\ UNCHANGED <<dbVars, notionVars, tgVars, answerLog,
                   pollVars, remVars, offset, hCtx>>

\* get_telegram_updates(offset): Telegram forgets the updates below offset
\* and returns the others in update_id order (a long poll that returns
\* nothing and confirms nothing changes no state).
GetUpdates ==
    /\ hPc = "poll"
    /\ updates' = SelectSeq(updates, LAMBDA u : u.update_id >= offset)
    /\ hBatch' = updates'
    /\ (hBatch' # <<>> \/ updates' # updates)
    /\ hPc' = HandlerAt(hBatch')
    /\ UNCHANGED <<dbVars, notionVars, messages, nextUpdateId, answerLog,
                   pollVars, remVars, offset, hCtx>>

\* get_telegram_updates(offset) raises after Telegram took the request: the
\* updates below offset are confirmed, the reply is lost, and the except
\* clause brings the loop back to its head with no batch.
GetUpdatesLost ==
    /\ hPc = "poll"
    /\ updates' = SelectSeq(updates, LAMBDA u : u.update_id >= offset)
    /\ updates' # updates
    /\ UNCHANGED <<dbVars, notionVars, messages, nextUpdateId, answerLog,
                   pollVars, remVars, hVars>>

\* update_questionnaire_status
update_questionnaire_status(chat_id, meeting_id, status, current_question) ==
    [i \in DOMAIN questionnaires |->
        IF questionnaires[i].chat_id = chat_id /\ questionnaires[i].meeting_id = meeting_id
        THEN [questionnaires[i] EXCEPT !.status = status,
                                       !.current_question = current_question]
        ELSE questionnaires[i]]

\* The row start_questionnaire picks: the first pending row of the chat
\* (the meeting_name of the payload is not used by the query).
StartRow(chat_id, meeting_name) == FirstInChat(chat_id, "pending")

\* start_questionnaire up to its await: the row becomes in_progress at
\* question 1 and the pressed message is being edited to question 1.
start_questionnaire(chat_id, meeting_name, message_id) ==
    LET i == StartRow(chat_id, meeting_name)
    IN IF i # 0
       THEN LET meeting_id == questionnaires[i].meeting_id
            IN /\ questionnaires' =
                     update_questionnaire_status(chat_id, meeting_id, "in_progress", 1)
               /\ hCtx' = [chat_id |-> chat_id, meeting_id |-> meeting_id,
                           message_id |-> message_id, next_question |-> 1,
                           answers |-> <<>>]
               /\ hPc' = "edit"
       ELSE /\ hPc' = HandlerAt(hBatch')
            /\ UNCHANGED <<questionnaires, hCtx>>

\* Mutant: the query of process_answer has no status filter left once no
\* row is in_progress, so a completed row is picked.
AnswerRow_any(chat_id) ==
    IF FirstInChat(chat_id, "in_progress") # 0
    THEN FirstInChat(chat_id, "in_progress")
    ELSE FirstInChat(chat_id, "completed")

\* The row process_answer picks: the first in_progress row of the chat (the
\* meeting_id of the payload is not passed on, and question_num is not
\* compared with the row's current_question).
AnswerRow(chat_id) == FirstInChat(chat_id, "in_progress")

\* process_answer up to its first await.
process_answer(chat_id, question_num, points, message_id) ==
    LET i == AnswerRow(chat_id)
    IN IF i # 0
       THEN LET row == questionnaires[i]
                answers == DictSet(json_loads(row.answers), IntKey(question_num), points)
                next_question == row.current_question + 1
            IN /\ answerLog' = Append(answerLog, <<row.meeting_id, question_num, points>>)
               /\ questionnaires' =
                     [questionnaires EXCEPT
                        ![i].answers = json_dumps(answers),
                        ![i].current_question = next_question,
                        ![i].status = IF next_question <= total_questions
                                      THEN row.status ELSE "completed"]
               /\ hCtx' = [chat_id |-> chat_id, meeting_id |-> row.meeting_id,
                           message_id |-> message_id, next_question |-> next_question,
                           answers |-> answers]
               /\ hPc' = IF next_question <= total_questions THEN "edit" ELSE "closing"
       ELSE /\ hPc' = HandlerAt(hBatch')
            /\ UNCHANGED <<questionnaires, answerLog, hCtx>>

\* action = data[0], as the branches of handle_callback_query tell it apart.
ActionOf(data) ==
    IF data[1] \in {"start", "answer"} THEN data[1] ELSE "other"

\* handle_callback_query reads its fields without raising: start needs
\* data[1]; answer needs data[1..4] with int(data[3]) and int(data[4]) (the
\* tuple counts its fields from 1).
FieldsOk(data) ==
    IF ActionOf(data) = "start" THEN Len(data) >= 2
    ELSE IF ActionOf(data) = "answer"
    THEN Len(data) >= 5 /\ IsInt(data[4]) /\ IsInt(data[5])
    ELSE TRUE

\* handle_callback_query up to the first await of the handler it calls.  An
\* IndexError or ValueError of the field reads ends the batch in the except
\* clause of the loop; an action that is neither start nor answer falls
\* through both branches.
handle_callback_query(update) ==
    LET data == update.data
        action == ActionOf(data)
    IN IF ~FieldsOk(data)
       THEN /\ HandlerAbort
            /\ UNCHANGED <<questionnaires, answerLog>>
       ELSE /\ hBatch' = Tail(hBatch)
            /\ IF action = "start"
               THEN /\ start_questionnaire(data[2],
                          IF Len(data) > 2 THEN data[3] ELSE NoName,
                          update.message_id)
                    /\ UNCHANGED answerLog
               ELSE IF action = "answer"
               THEN process_answer(data[2], int(data[4]), int(data[5]),
                                   update.message_id)
               ELSE /\ hPc' = HandlerAt(hBatch')
                    /\ UNCHANGED <<questionnaires, answerLog, hCtx>>

\* for update in updates: offset = update_id + 1; a callback_query goes to
\* handle_callback_query; a message whose stripped text is the command is
\* answered with the chat's id (the loop waits for sendMessage); any other
\* message or update is passed over.
Dispatch ==
    /\ hPc = "dispatch"
    /\ LET update == Head(hBatch)
       IN /\ offset' = update.update_id + 1
          /\ IF update.kind = "callback_query"
             THEN handle_callback_query(update)
             ELSE /\ hBatch' = Tail(hBatch)
                  /\ IF update.kind = "message" /\ strip(update.text) = ChatIdCommand
                     THEN /\ hPc' = "reply"
                          /\ hCtx' = [NoCtx EXCEPT !.chat_id = update.chat_id]
                     ELSE /\ hPc' = HandlerAt(hBatch')
                          /\ UNCHANGED hCtx
                  /\ UNCHANGED <<questionnaires, answerLog>>
    /\ UNCHANGED <<processed_meetings, notionVars, tgVars, pollVars, remVars>>

\* editMessageText(chat_id, message_id) performed: Telegram replaces the
\* text and buttons of the message of that chat when it still exists, and
\* refuses otherwise.
EditMessage(chat_id, message_id, kind, meeting, question) ==
    [i \in DOMAIN messages |->
        IF i = message_id /\ messages[i].chat_id = chat_id /\ ~messages[i].deleted
        THEN [messages[i] EXCEPT !.kind = kind, !.meeting = meeting, !.question = question]
        ELSE messages[i]]

\* edit_telegram_message of start_questionnaire (line 232) and of
\* process_answer (line 286) returns: the message shows the next question,
\* or Telegram answered ok: false for the message as it stands (429 Too Many
\* Requests, text it cannot parse) and the message is unchanged; the reply
\* is not inspected, so the handler goes on alike.
QuestionEdited ==
    /\ hPc = "edit"
    /\ \/ messages' = EditMessage(hCtx.chat_id, hCtx.message_id, "question",
                                  hCtx.meeting_id, hCtx.next_question)
       \/ UNCHANGED messages
    /\ hPc' = HandlerAt(hBatch)
    /\ hCtx' = NoCtx
    /\ UNCHANGED <<dbVars, notionVars, updates, nextUpdateId, answerLog,
                   pollVars, remVars, offset, hBatch>>

\* Mutant: the fifth score is looked up under the str key '5' like the others.
FeedbackPageStrKeys(chat_id, meeting_id, answers) ==
    [meeting_id |-> meeting_id, chat_id |-> chat_id,
     scores |-> <<DictGet(answers, StrKey(1), 0),
                  DictGet(answers, StrKey(2), 0),
                  DictGet(answers, StrKey(3), 0),
                  DictGet(answers, StrKey(4), 0),
                  DictGet(answers, StrKey(5), 0)>>]

\* save_feedback_to_notion: the page written to the feedback database; the
\* first four scores are read under str keys, the fifth under the int key 5.
FeedbackPage(chat_id, meeting_id, answers) ==
    [meeting_id |-> meeting_id, chat_id |-> chat_id,
     scores |-> <<DictGet(answers, StrKey(1), 0),
                  DictGet(answers, StrKey(2), 0),
                  DictGet(answers, StrKey(3), 0),
                  DictGet(answers, StrKey(4), 0),
                  DictGet(answers, IntKey(5), 0)>>]

\* save_feedback_to_notion when notion.pages.create returns: the page is
\* added; when the row is not found the function logs and returns without
\* writing.
save_feedback_to_notion(chat_id, meeting_id, answers) ==
    IF RowOf(chat_id, meeting_id) = 0 THEN feedback
    ELSE Append(feedback, FeedbackPage(chat_id, meeting_id, answers))

\* Mutant: the exception of the write is caught and logged inside
\* process_answer, which goes on to mark the meeting.
ClosingEdited_swallow ==
    /\ hPc = "closing"
    /\ \/ messages' = EditMessage(hCtx.chat_id, hCtx.message_id, "closing",
                                  hCtx.meeting_id, 0)
       \/ UNCHANGED messages
    /\ \/ feedback' = save_feedback_to_notion(hCtx.chat_id, hCtx.meeting_id,
                                                hCtx.answers)
       \/ UNCHANGED feedback
    /\ hPc' = "mark"
    /\ UNCHANGED <<dbVars, feedbackReceived, updates, nextUpdateId, answerLog,
                   pollVars, remVars, offset, hBatch, hCtx>>

\* Mutant: when the write of the page raises, the row is put back to
\* in_progress at the last question.
ClosingEdited_rollback ==
    /\ hPc = "closing"
    /\ \/ messages' = EditMessage(hCtx.chat_id, hCtx.message_id, "closing",
                                  hCtx.meeting_id, 0)
       \/ UNCHANGED messages
    /\ \/ /\ feedback' = Append(feedback,
                                FeedbackPage(hCtx.chat_id, hCtx.meeting_id, hCtx.answers))
          /\ hPc' = "mark"
          /\ UNCHANGED <<hBatch, hCtx, questionnaires>>
       \/ /\ HandlerAbort
          /\ questionnaires' = update_questionnaire_status(
                 hCtx.chat_id, hCtx.meeting_id, "in_progress", total_questions)
          /\ UNCHANGED feedback
       \/ /\ feedback' = Append(feedback,
                                FeedbackPage(hCtx.chat_id, hCtx.meeting_id, hCtx.answers))
          /\ HandlerAbort
          /\ UNCHANGED questionnaires
    /\ UNCHANGED <<processed_meetings, feedbackReceived, updates, nextUpdateId,
                   answerLog, pollVars, remVars, offset>>

\* Lines 294-298: the summary was fetched and the message edited to the
\* closing text, or Telegram refused the edit (the reply is not inspected);
\* save_feedback_to_notion runs (notion.pages.create is a blocking call) and
\* writes the page, or raises with nothing written, or raises after Notion
\* wrote the page (the reply was lost or timed out).
ClosingEdited ==
    /\ hPc = "closing"
    /\ \/ messages' = EditMessage(hCtx.chat_id, hCtx.message_id, "closing",
                                  hCtx.meeting_id, 0)
       \/ UNCHANGED messages
    /\ \/ /\ feedback' = save_feedback_to_notion(hCtx.chat_id, hCtx.meeting_id,
                                                   hCtx.answers)
          /\ hPc' = "mark"
          /\ UNCHANGED <<hBatch, hCtx>>
       \/ /\ HandlerAbort
          /\ UNCHANGED feedback
       \/ /\ RowOf(hCtx.chat_id, hCtx.meeting_id) # 0
          /\ feedback' = save_feedback_to_notion(hCtx.chat_id, hCtx.meeting_id,
                                                   hCtx.answers)
          /\ HandlerAbort
    /\ UNCHANGED <<dbVars, feedbackReceived, updates, nextUpdateId, answerLog,
                   pollVars, remVars, offset>>

\* mark_notion_meeting_completed returns: status 200 sets the checkbox, any
\* other status is only logged.
MeetingMarked ==
    /\ hPc = "mark"
    /\ \/ feedbackReceived' = feedbackReceived \cup {hCtx.meeting_id}
       \/ UNCHANGED feedbackReceived
    /\ hPc' = HandlerAt(hBatch)
    /\ hCtx' = NoCtx
    /\ UNCHANGED <<dbVars, feedback, tgVars, answerLog, pollVars, remVars,
                   offset, hBatch>>

\* An outbound call of the callback raises and the rest of the batch is
\* dropped: the call was not performed (editMessageText, the summary fetch,
\* the PATCH of the meeting page), or it was performed and its reply lost:
\* the message shows the next question or the closing text, or the checkbox
\* of the meeting page is set.
CallbackRaises ==
    /\ hPc \in {"edit", "closing", "mark"}
    /\ \/ UNCHANGED <<messages, feedbackReceived>>
       \/ /\ hPc = "edit"
          /\ messages' = EditMessage(hCtx.chat_id, hCtx.message_id, "question",
                                     hCtx.meeting_id, hCtx.next_question)
          /\ UNCHANGED feedbackReceived
       \/ /\ hPc = "closing"
          /\ messages' = EditMessage(hCtx.chat_id, hCtx.message_id, "closing",
                                     hCtx.meeting_id, 0)
          /\ UNCHANGED feedbackReceived
       \/ /\ hPc = "mark"
          /\ feedbackReceived' = feedbackReceived \cup {hCtx.meeting_id}
          /\ UNCHANGED messages
    /\ HandlerAbort
    /\ UNCHANGED <<dbVars, feedback, updates, nextUpdateId, answerLog,
                   pollVars, remVars, offset>>

\* The reply of line 452: the text "ID чата: <chat_id>", without buttons.
ChatIdMessage(chat_id) ==
    [chat_id |-> chat_id, kind |-> "other", meeting |-> NULL,
     question |-> 0, deleted |-> FALSE]

\* send_telegram_message of line 452 returns: the reply was delivered, or
\* Telegram refused it (the JSON of the reply is not inspected); the loop
\* goes on with the batch.
ChatIdSent(maxMessages) ==
    /\ hPc = "reply"
    /\ \/ /\ CanSend(maxMessages)
          /\ messages' = Append(messages, ChatIdMessage(hCtx.chat_id))
       \/ UNCHANGED messages
    /\ hPc' = HandlerAt(hBatch)
    /\ hCtx' = NoCtx
    /\ UNCHANGED <<dbVars, notionVars, updates, nextUpdateId, answerLog,
                   pollVars, remVars, offset, hBatch>>

\* send_telegram_message of line 452 raises, before the message was sent or
\* after it was delivered: the rest of the batch is dropped.
ChatIdRaises(maxMessages) ==
    /\ hPc = "reply"
    /\ \/ UNCHANGED messages
       \/ /\ CanSend(maxMessages)
          /\ messages' = Append(messages, ChatIdMessage(hCtx.chat_id))
    /\ HandlerAbort
    /\ UNCHANGED <<dbVars, notionVars, updates, nextUpdateId, answerLog,
                   pollVars, remVars, offset>>

\* run_telegram_polling where the chats deliver button presses only.
CallbackHandler ==
    \/ GetUpdates
    \/ GetUpdatesLost
    \/ Dispatch
    \/ QuestionEdited
    \/ ClosingEdited
    \/ MeetingMarked
    \/ CallbackRaises

\* run_telegram_polling
Handler(maxMessages) ==
    \/ CallbackHandler
    \/ ChatIdSent(maxMessages)
    \/ ChatIdRaises(maxMessages)

\* ------------------------------------------------------------ restart
\* The process is stopped and started again: feedback.db is kept (CREATE
\* TABLE IF NOT EXISTS), the three loops start over and offset is 0 again.
LoopsReset ==
    /\ pollPc' = "fetch" /\ pollBatch' = <<>>
    /\ remPc' = "scan" /\ remPending' = <<>>
    /\ hPc' = "poll" /\ offset' = 0 /\ hBatch' = <<>> /\ hCtx' = NoCtx

Restart ==
    /\ <<pollVars, remVars, hVars>> #
         <<<<"fetch", <<>>>>, <<"scan", <<>>>>, <<"poll", 0, <<>>, NoCtx>>>>
    /\ LoopsReset
    /\ UNCHANGED <<dbVars, notionVars, tgVars, answerLog>>

\* The process is stopped inside lines 120-129 of process_meeting: the prompt
\* was delivered, and the stop comes before the UPDATE of last_message_id
\* commits, or after it and before mark_meeting_processed commits.
ProcessMeetingKilled(maxMessages) ==
    /\ pollPc = "send"
    /\ CanSend(maxMessages)
    /\ LET meeting_id == Head(pollBatch)
           chat_id == ChatOf(meeting_id)
           message_id == Len(messages) + 1
       IN /\ messages' = Append(messages, InitialMessage(chat_id, NameOf(meeting_id)))
          /\ \/ UNCHANGED questionnaires
             \/ questionnaires' =
                   SetLastMessage(questionnaires, chat_id, meeting_id, message_id)
    /\ LoopsReset
    /\ UNCHANGED <<processed_meetings, notionVars, updates, nextUpdateId, answerLog>>

\* The process is stopped inside lines 402-408 of run_reminder_checker: the
\* fresh prompt was delivered and the stop comes before the UPDATE of
\* last_message_id commits (a stop after the commit is ReminderSent followed
\* by Restart).
ReminderKilled(maxMessages) ==
    /\ remPc = "send"
    /\ CanSend(maxMessages)
    /\ messages' = Append(messages, InitialMessage(Head(remPending).chat_id,
                                                   Head(remPending).meeting_name))
    /\ LoopsReset
    /\ UNCHANGED <<dbVars, notionVars, updates, nextUpdateId, answerLog>>

\* ------------------------------------------------------- specifications
\* The three loops, the users and every failure of an outbound call, with
\* one meeting in the record store.
Next ==
    \/ Poller({1}, MaxMessages)
    \/ Reminder(MaxMessages)
    \/ CallbackHandler
    \/ Press(1..MaxPoints, MaxUpdates, MaxPending)

Spec == Init /\ [][Next]_vars

\* The three loops with the scheduling of asyncio: a task that can take a
\* step takes one (a sleep ends, an outbound call returns or raises within
\* the client's timeout).
NextLive ==
    \/ Poller({1}, LiveMessages)
    \/ Reminder(LiveMessages)
    \/ CallbackHandler
    \/ Press(1..MaxPoints, LiveUpdates, LivePending)

SpecLive ==
    /\ Init /\ [][NextLive]_vars
    /\ WF_vars(Poller({1}, LiveMessages))
    /\ WF_vars(Reminder(LiveMessages))
    /\ WF_vars(CallbackHandler)

\* Discovery and reminding of two meetings, with failures and restarts of the
\* process; no user acts.
NextDiscovery ==
    \/ Poller(Meetings, DiscoveryMessages)
    \/ Reminder(DiscoveryMessages)
    \/ ProcessMeetingKilled(DiscoveryMessages)
    \/ ReminderKilled(DiscoveryMessages)
    \/ Restart

SpecDiscovery == Init /\ [][NextDiscovery]_vars

\* Discovery and reminding of two meetings when no outbound call fails and the
\* process keeps running: what is left is the interleaving of the two loops.
NextReliable ==
    \/ NotionFetch(Meetings)
    \/ ProcessMeetingSave
    \/ ProcessMeetingSent(DiscoveryMessages)
    \/ ReminderScan
    \/ ReminderDeleted
    \/ ReminderSent(DiscoveryMessages)

SpecReliable == Init /\ [][NextReliable]_vars

\* Two meetings of one chat and their users; the Reminder Loop is left out.
NextChat ==
    \/ Poller(Meetings, NumMeetings)
    \/ CallbackHandler
    \/ Press(1..MaxPoints, ChatUpdates, MaxPending)

SpecChat == Init /\ [][NextChat]_vars

\* One questionnaire answered with every score the keyboard offers.
NextScores ==
    \/ NotionFetch({1})
    \/ ProcessMeetingSave
    \/ ProcessMeetingSent(1)
    \/ GetUpdates
    \/ Dispatch
    \/ QuestionEdited
    \/ ClosingEdited
    \/ MeetingMarked
    \/ Press(1..MaxScore, ScoresUpdates, ScoresPending)

SpecScores == Init /\ [][NextScores]_vars

\* One questionnaire and its user, who may press a button twice; the only
\* outbound call that fails is the write of the feedback page.
NextClosing ==
    \/ NotionFetch({1})
    \/ ProcessMeetingSave
    \/ ProcessMeetingSent(1)
    \/ GetUpdates
    \/ Dispatch
    \/ QuestionEdited
    \/ ClosingEdited
    \/ MeetingMarked
    \/ Press(1..MaxPoints, ClosingUpdates, MaxPending)

SpecClosing == Init /\ [][NextClosing]_vars

\* One questionnaire and its user, with every failure of the handler's
\* outbound calls and restarts of the process: after a restart Telegram
\* delivers the unconfirmed updates once more.
NextReplay ==
    \/ NotionFetch({1})
    \/ ProcessMeetingSave
    \/ ProcessMeetingSent(1)
    \/ CallbackHandler
    \/ Press(1..MaxPoints, ReplayUpdates, MaxPending)
    \/ Restart

SpecReplay == Init /\ [][NextReplay]_vars

\* One questionnaire whose chat also delivers text messages and payloads
\* the keyboards of the program do not write.
NextEvents ==
    \/ NotionFetch({1})
    \/ ProcessMeetingSave
    \/ ProcessMeetingSent(EventMessages)
    \/ Handler(EventMessages)
    \/ Press(1..MaxPoints, EventUpdates, MaxPending)
    \/ PressOdd(EventUpdates, MaxPending)
    \/ SendText(EventUpdates, MaxPending)

SpecEvents == Init /\ [][NextEvents]_vars

\* ------------------------------------------------------------- claims
RowsOf(chat_id, meeting_id) ==
    {i \in DOMAIN questionnaires :
        /\ questionnaires[i].chat_id = chat_id
        /\ questionnaires[i].meeting_id = meeting_id}

\* C1: every meeting id in processed_meetings has exactly one questionnaires
\* row for its (chat_id, meeting_id), however often the poller finds the
\* meeting again and whatever failed or restarted on the way.
C1_OneRowPerProcessedMeeting ==
    \A m \in processed_meetings : Cardinality(RowsOf(ChatOf(m), m)) = 1

\* C1 witness: a processed meeting is returned again by a later cycle and
\* process_meeting runs for it a second time.
C1_Witness ==
    /\ pollPc = "name"
    /\ Head(pollBatch) \in processed_meetings
    /\ Cardinality(RowsOf(ChatOf(Head(pollBatch)), Head(pollBatch))) = 1

\* The update being dispatched and the in_progress row process_answer picks.
C2_StaleAnswer ==
    /\ hPc = "dispatch"
    /\ Head(hBatch).data[1] = "answer"
    /\ AnswerRow(Head(hBatch).data[2]) # 0
    /\ int(Head(hBatch).data[4]) #
          questionnaires[AnswerRow(Head(hBatch).data[2])].current_question

\* C2: handling an answer whose question index differs from the row's
\* current_question changes no row and asks for no message edit.
C2_StaleAnswerIgnored ==
    [][(C2_StaleAnswer /\ Dispatch)
         => (UNCHANGED questionnaires /\ hPc' \notin {"edit", "closing"})]_vars

\* C3: for every started questionnaire the keys of answers are exactly
\* 1..current_question-1.
C3_AnswersArePrefix ==
    \A i \in DOMAIN questionnaires :
        questionnaires[i].status # "pending"
        => AnswerKeys(questionnaires[i].answers)
             = 1..(questionnaires[i].current_question - 1)

\* C4: a row's status only changes from pending to in_progress when a start
\* action is dispatched and from in_progress to completed when an answer
\* action is dispatched; rows keep their place and key.
C4_StatusTransitions ==
    [][\A i \in DOMAIN questionnaires :
          /\ i \in DOMAIN questionnaires'
          /\ questionnaires'[i].meeting_id = questionnaires[i].meeting_id
          /\ questionnaires'[i].chat_id = questionnaires[i].chat_id
          /\ questionnaires'[i].status # questionnaires[i].status
             => /\ hPc = "dispatch"
                /\ \/ /\ questionnaires[i].status = "pending"
                      /\ questionnaires'[i].status = "in_progress"
                      /\ Head(hBatch).data[1] = "start"
                   \/ /\ questionnaires[i].status = "in_progress"
                      /\ questionnaires'[i].status = "completed"
                      /\ Head(hBatch).data[1] = "answer"]_vars

\* C4 witness: a questionnaire went all the way to completed while the
\* Reminder Loop had sent a reminder.
C4_Witness ==
    /\ \E i \in DOMAIN questionnaires : questionnaires[i].status = "completed"
    /\ Len(messages) = MaxMessages

\* The row the Reminder Loop is working on, as it is in the table now.
C5_ReminderRow == questionnaires[RowOf(Head(remPending).chat_id, Head(remPending).meeting_id)]

\* C5: when the Reminder Loop deletes a prompt or sends an initial prompt,
\* the row it does so for is pending at that moment.
C5_ReminderOnlyForPending ==
    [][((ReminderDeleted /\ messages' # messages) \/ ReminderSent(MaxMessages))
         => C5_ReminderRow.status = "pending"]_vars

\* Initial prompts of a row that are on screen.
LivePrompts(row) ==
    {i \in DOMAIN messages :
        /\ messages[i].kind = "prompt"
        /\ messages[i].chat_id = row.chat_id
        /\ messages[i].meeting = row.meeting_name
        /\ ~messages[i].deleted}

\* Neither loop is between the steps of its work on the row.
C6_AtRest(row) ==
    /\ ~(pollPc = "send" /\ Head(pollBatch) = row.meeting_id)
    /\ ~(remPc \in {"delete", "send"} /\ Head(remPending).meeting_id = row.meeting_id)

\* C6: a pending questionnaire on which neither loop is at work has exactly
\* one live initial prompt, and last_message_id names it.
C6_OneLivePrompt ==
    \A i \in DOMAIN questionnaires :
        (questionnaires[i].status = "pending" /\ C6_AtRest(questionnaires[i]))
        => LivePrompts(questionnaires[i]) = {questionnaires[i].last_message_id}

\* The poller finds meeting m again after its row was inserted and its prompt
\* sent, but before it was marked processed.
C7_Rediscovered(m) ==
    /\ pollPc = "name"
    /\ Head(pollBatch) = m
    /\ m \notin processed_meetings
    /\ RowOf(ChatOf(m), m) # 0
    /\ \E i \in DOMAIN messages :
          messages[i].kind = "prompt" /\ messages[i].meeting = NameOf(m)

\* C7: for a meeting found again after such a failure, process_meeting goes
\* on to send the prompt once more (and then marks the meeting processed).
C7_RediscoveryResends ==
    [][\A m \in Meetings :
          (C7_Rediscovered(m) /\ ProcessMeetingSave) => pollPc' = "send"]_vars

\* C8: a step of process_meeting that ends the cycle leaves no meeting of the
\* batch behind: the meetings after the current one are processed.
C8_FailureKeepsCycle ==
    [][((ProcessMeetingRaises \/ ProcessMeetingSave
           \/ ProcessMeetingSendFails(DiscoveryMessages)) /\ pollPc' = "fetch")
         => Range(Tail(pollBatch)) \subseteq processed_meetings']_vars

\* The row index i is not the questionnaire the dispatched payload names
\* (start names the meeting by its title, answer by its id).
C9_OtherRow(i) ==
    LET data == Head(hBatch).data
    IN \/ questionnaires[i].chat_id # data[2]
       \/ IF data[1] = "start"
          THEN questionnaires[i].meeting_name # data[3]
          ELSE questionnaires[i].meeting_id # data[3]

\* C9: dispatching a start or answer action leaves the rows of every other
\* meeting as they are.
C9_OtherMeetingsUntouched ==
    [][(hPc = "dispatch" /\ Dispatch)
         => \A i \in DOMAIN questionnaires :
               C9_OtherRow(i) => questionnaires'[i] = questionnaires[i]]_vars

\* What process_answer logged for a meeting, in order.
AnswersLogged(meeting_id) == SelectSeq(answerLog, LAMBDA e : e[1] = meeting_id)
InOrder(log) ==
    /\ Len(log) = total_questions
    /\ \A k \in 1..total_questions : log[k][2] = k

\* C10: a feedback page of a questionnaire whose answers were given in order
\* to questions 1..5 carries exactly the five scores given.
C10_FeedbackRoundTrip ==
    \A i \in DOMAIN feedback :
        LET log == AnswersLogged(feedback[i].meeting_id)
        IN InOrder(log)
           => feedback[i].scores = [k \in 1..total_questions |-> log[k][3]]

\* C10 witness: the scores 5, 4, 3, 2, 1 were given in order and the page
\* was written.
C10_Witness ==
    \E i \in DOMAIN feedback :
        /\ AnswersLogged(feedback[i].meeting_id) =
              <<<<feedback[i].meeting_id, 1, 5>>, <<feedback[i].meeting_id, 2, 4>>,
                <<feedback[i].meeting_id, 3, 3>>, <<feedback[i].meeting_id, 4, 2>>,
                <<feedback[i].meeting_id, 5, 1>>>>
        /\ feedback[i].scores = <<5, 4, 3, 2, 1>>

\* Feedback pages written for a meeting.
PagesOf(meeting_id) == {i \in DOMAIN feedback : feedback[i].meeting_id = meeting_id}
\* The handler is inside the closing steps of a meeting's last answer.
Closing(meeting_id) == hPc = "closing" /\ hCtx.meeting_id = meeting_id

\* C11: when the write of the feedback page fails, the row stays completed
\* and the handler goes back to getUpdates with the later updates still
\* queued; a completed questionnaire that has no page and is not being
\* closed never gets one and is never closed again; and the handler, back at
\* getUpdates with updates waiting, can fetch them.
C11_ClosingFailure ==
    /\ [][(hPc = "closing" /\ ClosingEdited /\ feedback' = feedback)
            => /\ questionnaires'[RowOf(hCtx.chat_id, hCtx.meeting_id)].status = "completed"
               /\ hPc' = "poll"
               /\ offset' = offset
               /\ updates' = updates]_vars
    /\ [][\A i \in DOMAIN questionnaires :
            LET m == questionnaires[i].meeting_id
            IN (questionnaires[i].status = "completed" /\ PagesOf(m) = {} /\ ~Closing(m))
               => (PagesOf(m)' = {} /\ ~Closing(m)')]_vars
    /\ []((hPc = "poll" /\ \E u \in Range(updates) : u.update_id >= offset)
            => ENABLED GetUpdates)

\* C11 witness: the write failed (the row is completed without a page) and
\* the handler is dispatching a later answer.
C11_Witness ==
    /\ \E i \in DOMAIN questionnaires :
          /\ questionnaires[i].status = "completed"
          /\ PagesOf(questionnaires[i].meeting_id) = {}
    /\ hPc = "dispatch"
    /\ Head(hBatch).data[1] = "answer"

\* C12: each loop that is inside an iteration, whatever failed in it or in
\* the other loops, gets back to the head of its cycle, and at the head it
\* can start the next iteration whenever there is work to fetch.
C12_LoopsGoOn ==
    /\ (pollPc # "fetch") ~> (pollPc = "fetch")
    /\ (remPc # "scan") ~> (remPc = "scan")
    /\ (hPc # "poll") ~> (hPc = "poll")
    /\ []((pollPc = "fetch" /\ {1} \ feedbackReceived # {})
            => ENABLED NotionFetch({1}))
    /\ []((remPc = "scan" /\ PendingRows(questionnaires) # <<>>)
            => ENABLED ReminderScan)
    /\ []((hPc = "poll" /\ \E u \in Range(updates) : u.update_id >= offset)
            => ENABLED GetUpdates)

\* C12 witness: the poller's send failed in an earlier cycle (the row is
\* there, the meeting is not processed) and the poller is in its next
\* cycle, while the other two loops are at work.
C12_Witness ==
    /\ pollPc = "name"
    /\ questionnaires # <<>>
    /\ processed_meetings = {}
    /\ remPc = "send"
    /\ hPc = "dispatch"

\* C13: every row has current_question in 0..total_questions, also once it
\* is completed.
C13_CurrentQuestionInRange ==
    \A i \in DOMAIN questionnaires :
        questionnaires[i].current_question \in 0..total_questions

\* C14: when the Reminder Loop sends the prompt for a row that is pending,
\* the message the row names as its last one has been deleted, the new
\* message_id was never issued before, and it is stored on the row.
C14_ReminderReplacesPrompt ==
    [][(remPc = "send" /\ ReminderSent(DiscoveryMessages)
          /\ C5_ReminderRow.status = "pending")
         => /\ C5_ReminderRow.last_message_id # NULL
                  => messages[C5_ReminderRow.last_message_id].deleted
            /\ Len(messages') \notin DOMAIN messages
            /\ questionnaires'[RowOf(Head(remPending).chat_id,
                                     Head(remPending).meeting_id)].last_message_id
                  = Len(messages')]_vars

\* C15: every processed meeting has its row, the row names a message, and
\* that message is an initial prompt sent for the meeting.
C15_ProcessedHasPrompt ==
    \A m \in processed_meetings :
        LET i == RowOf(ChatOf(m), m)
        IN /\ i # 0
           /\ questionnaires[i].last_message_id # NULL
           /\ questionnaires[i].last_message_id \in DOMAIN messages
           /\ messages[questionnaires[i].last_message_id].kind = "prompt"
           /\ messages[questionnaires[i].last_message_id].meeting = NameOf(m)

\* C15 witness: one meeting is processed and was reminded since, while the
\* other has its row but was not marked because its send failed.
C15_Witness ==
    \E m \in processed_meetings :
        /\ \E k \in DOMAIN messages :
              /\ messages[k].meeting = NameOf(m)
              /\ messages[k].deleted
              /\ questionnaires[RowOf(ChatOf(m), m)].last_message_id > k
        /\ \E n \in Meetings \ processed_meetings : RowOf(ChatOf(n), n) # 0

\* C16: a step of the Reminder Loop leaves processed_meetings alone and
\* changes no row except the last_message_id of the row it is sending for.
C16_ReminderFrame ==
    [][(ReminderScan \/ ReminderDeleted \/ ReminderDeleteRefused
          \/ ReminderSent(MaxMessages) \/ ReminderRaises(MaxMessages))
         => /\ processed_meetings' = processed_meetings
            /\ DOMAIN questionnaires' = DOMAIN questionnaires
            /\ \A i \in DOMAIN questionnaires :
                  /\ questionnaires'[i] =
                        [questionnaires[i] EXCEPT !.last_message_id =
                                                    questionnaires'[i].last_message_id]
                  /\ questionnaires'[i] # questionnaires[i]
                        => /\ remPc = "send"
                           /\ questionnaires[i].meeting_id = Head(remPending).meeting_id
                           /\ questionnaires[i].chat_id = Head(remPending).chat_id]_vars

\* C16 witness: the Reminder Loop has sent the second message for a row that
\* was started in the meantime, and the row is still in_progress.
C16_Witness ==
    /\ remPc = "scan"
    /\ Len(messages) = 2
    /\ messages[1].kind = "question"
    /\ \E i \in DOMAIN questionnaires :
          /\ questionnaires[i].status = "in_progress"
          /\ questionnaires[i].last_message_id = 2
          /\ questionnaires[i].meeting_id \in processed_meetings

\* A text message that is not the command the bot answers.
C17_Unrecognized(update) ==
    update.kind # "callback_query" /\ strip(update.text) # ChatIdCommand

\* The payload of a button press is of an action handle_callback_query does
\* not know, or has fewer fields than its action's buttons write, or an
\* answer's question or score is not a number.
C17_Malformed(update) ==
    /\ update.kind = "callback_query"
    /\ LET data == update.data
       IN \/ data[1] \notin {"start", "answer"}
          \/ data[1] = "start" /\ Len(data) < 3
          \/ data[1] = "answer"
               /\ (Len(data) < 5 \/ ~IsInt(data[4]) \/ ~IsInt(data[5]))

\* The dispatch of the update changed no row, no processed meeting and no
\* message, and asks for no message to be sent or edited.
C17_Ignored ==
    /\ UNCHANGED <<questionnaires, processed_meetings, messages>>
    /\ hPc' \notin {"edit", "closing", "mark", "reply"}

\* C17: the dispatch of a malformed payload, of a payload of an unknown
\* action or of an unrecognized text message is ignored.
C17_MalformedIgnored ==
    [][(/\ hPc = "dispatch"
        /\ C17_Malformed(Head(hBatch)) \/ C17_Unrecognized(Head(hBatch))
        /\ Dispatch)
         => C17_Ignored]_vars

\* C18: when the deleteMessage call of the scan does not delete the old
\* prompt, be it refused by Telegram or failed in transport, the scan goes
\* on to send the fresh prompt for the row and keeps the rest of its list.
C18_DeleteFailureIgnored ==
    [][(remPc = "delete" /\ (ReminderDeleteRefused \/ ReminderRaises(DiscoveryMessages)))
         => (remPc' = "send" /\ remPending' = remPending)]_vars

\* C19: a row is completed exactly when five answers have been accepted for
\* it, and a step never changes the status, current_question or answers of
\* a completed row.
C19_CompletedIsTerminal ==
    /\ [](\A i \in DOMAIN questionnaires :
            questionnaires[i].status = "completed"
            <=> Len(AnswersLogged(questionnaires[i].meeting_id)) = total_questions)
    /\ [][\A i \in DOMAIN questionnaires :
            questionnaires[i].status = "completed"
            => /\ i \in DOMAIN questionnaires'
               /\ questionnaires'[i].status = "completed"
               /\ questionnaires'[i].current_question = questionnaires[i].current_question
               /\ questionnaires'[i].answers = questionnaires[i].answers]_vars

\* C19 witness: two presses on the keyboard of question 5 were dispatched,
\* the second one after the row was completed, and the poller has found
\* the meeting again.
C19_Witness ==
    /\ \E i \in DOMAIN questionnaires : questionnaires[i].status = "completed"
    /\ hPc = "poll"
    /\ \E u1, u2 \in Range(updates) :
          /\ u1.update_id < u2.update_id
          /\ u1.data[1] = "answer" /\ u1.data[4] = str(total_questions)
          /\ u2.data[1] = "answer" /\ u2.data[4] = str(total_questions)
          /\ offset = u2.update_id + 1
    /\ pollPc = "name"

\* C20: no questionnaire has more than one feedback page.
C20_OnePagePerQuestionnaire ==
    \A i \in DOMAIN questionnaires :
        Cardinality(PagesOf(questionnaires[i].meeting_id)) <= 1

\* C20 witness: the page is written, the process was restarted, and the
\* press on question 5 is delivered and dispatched once more.
C20_Witness ==
    /\ feedback # <<>>
    /\ hPc = "dispatch"
    /\ offset = 0
    /\ Head(hBatch).data[1] = "answer"
    /\ Head(hBatch).data[4] = str(total_questions)

\* C21: every meeting whose feedback-received flag is set has its feedback
\* page and a completed questionnaire; the flag is never set after a write
\* that failed or was not made.
C21_FlagAfterPage ==
    \A m \in feedbackReceived :
        /\ PagesOf(m) # {}
        /\ RowOf(ChatOf(m), m) # 0
        /\ questionnaires[RowOf(ChatOf(m), m)].status = "completed"

\* C21 witness: the flag of a meeting is set and the process was restarted
\* after it.
C21_Witness ==
    /\ feedbackReceived # {}
    /\ offset = 0
    /\ hPc = "dispatch"

\* C22: the offset never decreases; each dispatch sets it just past the
\* update it takes, before handling it, and takes an update that is not
\* below the offset (so the dispatched ids strictly increase: no update is
\* dispatched twice, a failed one is not asked for again); the batch is in
\* update-id order; and an update at or above the offset stays queued at
\* the channel, also when the batch that held it was dropped by a failure.
C22_OffsetDiscipline ==
    /\ [][offset' >= offset]_vars
    /\ [][(hPc = "dispatch" /\ Dispatch)
            => /\ Head(hBatch).update_id >= offset
               /\ offset' = Head(hBatch).update_id + 1]_vars
    /\ [](\A i, j \in DOMAIN hBatch :
            i < j => hBatch[i].update_id < hBatch[j].update_id)
    /\ [](\A i \in DOMAIN hBatch :
            hBatch[i] \in Range(updates) /\ hBatch[i].update_id >= offset)
    /\ [][\A u \in Range(updates) :
            u.update_id >= offset => (u \in Range(updates') \/ offset' > u.update_id)]_vars
    /\ [][\A u \in Range(hBatch) :
            (u.update_id >= offset' /\ hPc' = "poll") => u \in Range(updates')]_vars

\* C22 witness: earlier updates were dispatched, and the handler is about to
\* dispatch an update whose field reads raise, with another update behind
\* it in the same batch.
C22_Witness ==
    /\ hPc = "dispatch"
    /\ offset > 0
    /\ Len(hBatch) >= 2
    /\ Head(hBatch).update_id = offset
    /\ Head(hBatch).kind = "callback_query"
    /\ ~FieldsOk(Head(hBatch).data)
====
